---- MODULE Spec2Model ----
(***************************************************************************)
(* Star-System-Renderer: the scene (StarSystem), its camera controller,    *)
(* the per-frame update of the star and the orbiting bodies, and the frame *)
(* driver.                                                                 *)
(*                                                                         *)
(* Numbers.  Every real of the program is a fixed-point integer counting   *)
(* thousandths (1.0 is 1000); Mul is the product of two such numbers.      *)
(* Pixel and wheel deltas and millisecond timestamps are plain integers.   *)
(*                                                                         *)
(* Matrices.  gl-matrix post-multiplies: rotateY(out, a, rad) stores       *)
(* a * R_y(rad), translate stores a * T(v), scale stores a * S(v).  A      *)
(* matrix is the sequence of the elementary factors it was built from,     *)
(* left to right; identity is the empty sequence.  Two matrices are equal  *)
(* here exactly when the same products were formed, which is the equality  *)
(* the floating-point values obey.  A rotation by 0 multiplies by the      *)
(* exact identity (sin 0 = 0, cos 0 = 1), so it leaves the matrix as it    *)
(* is.                                                                     *)
(***************************************************************************)
EXTENDS Integers, Sequences, FiniteSets, TLC

VARIABLES cameraMode, cameraYaw, cameraPitch, cameraRadius,
          lastTime, deltaTime, star, planets,
          projectionMatrix, viewMatrix, drawn, console,
          pendingFrames, loopStarted, main, gl, ply

vars == <<cameraMode, cameraYaw, cameraPitch, cameraRadius,
          lastTime, deltaTime, star, planets,
          projectionMatrix, viewMatrix, drawn, console,
          pendingFrames, loopStarted, main, gl, ply>>

\* the StarSystem object and the console
sceneVars == <<cameraMode, cameraYaw, cameraPitch, cameraRadius,
               lastTime, deltaTime, star, planets,
               projectionMatrix, viewMatrix, drawn, console>>

\* the host's animation-frame queue
driverVars == <<pendingFrames, loopStarted>>

\* main() of index.js, the WebGL context, a run of parsePLY
auxVars == <<main, gl, ply>>

camera == <<cameraYaw, cameraPitch, cameraRadius>>
scene == <<star, planets>>

----------------------------------------------------------------------------
(* Fixed-point arithmetic *)

Scale == 1000

Mul(a, b) == (a * b) \div Scale

Min(a, b) == IF a < b THEN a ELSE b

Max(a, b) == IF a > b THEN a ELSE b

\* Math.PI, to three decimals
PI == 3142

----------------------------------------------------------------------------
(* Bounds of the model *)

\* frame timestamps stop at MaxHalfSeconds * 500 milliseconds
MaxHalfSeconds == 4

\* cameraYaw is unbounded in the program; drags stop when it is this many
\* radians away from its initial value
MaxYawTurn == 3

\* gaps between the timestamps of successive frames, in milliseconds;
\* 0 is a frame with the timestamp of the previous one
FrameGaps == {0, 1000, 1500}

\* pointer deltas (deltaX, deltaY), in pixels
DragDeltas == {<<100, 0>>, <<-100, 0>>, <<0, 100>>, <<0, -200>>}

\* WheelEvent.deltaY values
WheelDeltas == {-500, 1000}

\* arguments of setCameraMode: the two modes and a string that is neither
ModeRequests == {"3D", "TOP", "SIDE"}

----------------------------------------------------------------------------
(* Program constants *)

initialYaw == -500
initialPitch == 1000
initialRadius == 25000
minCameraRadius == 5000
maxCameraRadius == 100000
zoomSensitivity == 100
sensitivity == 10
minPitch == 100
maxPitch == (PI \div 2) - 100

\* time *= 0.001
msToSeconds == 1

\* deltaTime * 0.2
starSpinRate == 200

\* orbitSpeed * deltaTime * 0.5
orbitTimeScale == 500

----------------------------------------------------------------------------
(* gl-matrix *)

Identity == << >>

rotateY(a, rad) ==
    IF rad = 0 THEN a ELSE Append(a, [op |-> "rotateY", arg |-> <<rad>>])

translate(a, v) ==
    IF v = <<0, 0, 0>> THEN a ELSE Append(a, [op |-> "translate", arg |-> v])

scale(a, v) ==
    IF v = <<Scale, Scale, Scale>> THEN a ELSE Append(a, [op |-> "scale", arg |-> v])

\* mat4.lookAt overwrites out with the view matrix of (eye, center, up)
lookAt(eye, center, up) ==
    <<[op |-> "lookAt", eye |-> eye, center |-> center, up |-> up]>>

\* mat4.perspective overwrites out; the aspect ratio is the canvas's own
perspective(fovDegrees, zNear, zFar) ==
    <<[op |-> "perspective", arg |-> <<fovDegrees, zNear, zFar>>]>>

----------------------------------------------------------------------------
(* GameObject *)

GameObject(model, isEmissive) ==
    [model |-> model, isEmissive |-> isEmissive, modelMatrix |-> Identity]

----------------------------------------------------------------------------
(* StarSystem: construction *)

setupStar ==
    LET s == GameObject("sphere", TRUE)
    IN [s EXCEPT !.modelMatrix = scale(s.modelMatrix, <<2000, 2000, 2000>>)]

setupPlanet(model, orbit, orbitSpeed, rotationSpeed) ==
    LET g == GameObject(model, FALSE)
    IN [model |-> g.model, isEmissive |-> g.isEmissive,
        modelMatrix |-> translate(g.modelMatrix, <<orbit, 0, 0>>),
        orbit |-> orbit, orbitSpeed |-> orbitSpeed,
        rotationSpeed |-> rotationSpeed,
        totalOrbitAngle |-> 0, totalRotationAngle |-> 0]

setupPlanets ==
    << setupPlanet("icosphere", 5000, 1000, 3000),
       setupPlanet("monkey", 8000, 1500, 4000),
       setupPlanet("torus", 11000, 2000, 5000) >>

\* deltaTime is render's local of that name, the value it last handed to
\* _update; before the first frame nothing has been handed over and it is 0.
\* drawn is the list of model matrices the last frame submitted, in draw
\* order; console is the last line logged by setCameraMode.  pendingFrames
\* counts the renderFrame callbacks waiting in the host's animation-frame
\* queue and loopStarted tells whether start() has been called.  main, gl
\* and ply belong to the startup, the draw calls and the PLY parser, which
\* have specifications of their own below; here they are empty.
Init ==
    /\ cameraMode = "3D"
    /\ cameraYaw = initialYaw
    /\ cameraPitch = initialPitch
    /\ cameraRadius = initialRadius
    /\ lastTime = 0
    /\ deltaTime = 0
    /\ star = setupStar
    /\ planets = setupPlanets
    /\ projectionMatrix = Identity
    /\ viewMatrix = Identity
    /\ drawn = << >>
    /\ console = << >>
    /\ pendingFrames = 0
    /\ loopStarted = FALSE
    /\ main = << >>
    /\ gl = << >>
    /\ ply = << >>

----------------------------------------------------------------------------
(* StarSystem: camera controller *)

\* setCameraMode storing whatever it is given
setCameraMode_unchecked(mode) ==
    /\ cameraMode' = mode
    /\ UNCHANGED <<cameraYaw, cameraPitch, cameraRadius, lastTime, deltaTime,
                   star, planets, projectionMatrix, viewMatrix, drawn, console>>

\* setCameraMode putting the orbital camera back to its initial placement
setCameraMode_resetCamera(mode) ==
    /\ IF mode = "3D" \/ mode = "TOP"
          THEN /\ cameraMode' = mode
               /\ cameraYaw' = initialYaw
               /\ cameraPitch' = initialPitch
               /\ cameraRadius' = initialRadius
               /\ UNCHANGED console
          ELSE /\ console' = <<"Invalid camera mode:", mode>>
               /\ UNCHANGED <<cameraMode, cameraYaw, cameraPitch, cameraRadius>>
    /\ UNCHANGED <<lastTime, deltaTime, star, planets, projectionMatrix,
                   viewMatrix, drawn>>

setCameraMode(mode) ==
    /\ IF mode = "3D" \/ mode = "TOP"
          THEN cameraMode' = mode /\ UNCHANGED console
          ELSE console' = <<"Invalid camera mode:", mode>> /\ UNCHANGED cameraMode
    /\ UNCHANGED <<cameraYaw, cameraPitch, cameraRadius, lastTime, deltaTime,
                   star, planets, projectionMatrix, viewMatrix, drawn>>

\* the pitch clamp without its upper bound
clampPitch_noUpper(pitch) == Max(minPitch, pitch)

clampPitch(pitch) == Max(minPitch, Min(maxPitch, pitch))

\* handleMouseMovement without the early return outside 3D mode
handleMouseMovement_anyMode(deltaX, deltaY) ==
    /\ cameraYaw' = cameraYaw - deltaX * sensitivity
    /\ cameraPitch' = clampPitch(cameraPitch - deltaY * sensitivity)
    /\ UNCHANGED <<cameraMode, cameraRadius, lastTime, deltaTime, star, planets,
                   projectionMatrix, viewMatrix, drawn, console>>

\* handleMouseMovement keeping the yaw within (-PI, PI]
handleMouseMovement_wrapYaw(deltaX, deltaY) ==
    /\ IF cameraMode # "3D"
          THEN UNCHANGED <<cameraYaw, cameraPitch>>
          ELSE /\ cameraYaw' =
                    LET yaw == cameraYaw - deltaX * sensitivity
                    IN IF yaw > PI THEN yaw - 2 * PI
                       ELSE IF yaw <= -PI THEN yaw + 2 * PI ELSE yaw
               /\ cameraPitch' = clampPitch(cameraPitch - deltaY * sensitivity)
    /\ UNCHANGED <<cameraMode, cameraRadius, lastTime, deltaTime, star, planets,
                   projectionMatrix, viewMatrix, drawn, console>>

\* handleMouseMovement that, outside 3D mode, takes the drag as a request to
\* go back to the orbital camera
handleMouseMovement_wakesOrbital(deltaX, deltaY) ==
    /\ IF cameraMode # "3D"
          THEN cameraMode' = "3D" /\ UNCHANGED <<cameraYaw, cameraPitch>>
          ELSE /\ cameraYaw' = cameraYaw - deltaX * sensitivity
               /\ cameraPitch' = clampPitch(cameraPitch - deltaY * sensitivity)
               /\ UNCHANGED cameraMode
    /\ UNCHANGED <<cameraRadius, lastTime, deltaTime, star, planets,
                   projectionMatrix, viewMatrix, drawn, console>>

handleMouseMovement(deltaX, deltaY) ==
    /\ IF cameraMode # "3D"
          THEN UNCHANGED <<cameraYaw, cameraPitch>>
          ELSE /\ cameraYaw' = cameraYaw - deltaX * sensitivity
               /\ cameraPitch' = clampPitch(cameraPitch - deltaY * sensitivity)
    /\ UNCHANGED <<cameraMode, cameraRadius, lastTime, deltaTime, star, planets,
                   projectionMatrix, viewMatrix, drawn, console>>

\* the radius clamp with its two bounds exchanged
clampRadius_swapped(radius) == Min(minCameraRadius, Max(maxCameraRadius, radius))

clampRadius(radius) == Max(minCameraRadius, Min(maxCameraRadius, radius))

handleMouseScroll(eventDeltaY) ==
    /\ IF cameraMode # "3D"
          THEN UNCHANGED cameraRadius
          ELSE cameraRadius' = clampRadius(cameraRadius + eventDeltaY * zoomSensitivity)
    /\ UNCHANGED <<cameraMode, cameraYaw, cameraPitch, lastTime, deltaTime, star,
                   planets, projectionMatrix, viewMatrix, drawn, console>>

----------------------------------------------------------------------------
(* StarSystem: per-frame update and draw *)

\* the star turned by the absolute time of the frame instead of the elapsed time
updateStar_absoluteTime(s, dt) ==
    [s EXCEPT !.modelMatrix = rotateY(s.modelMatrix, Mul(lastTime + dt, starSpinRate))]

updateStar(s, dt) ==
    [s EXCEPT !.modelMatrix = rotateY(s.modelMatrix, Mul(dt, starSpinRate))]

\* the orbit angle advanced without the 0.5 factor
updatePlanet_noTimeScale(p, dt) ==
    LET orbitAngle == p.totalOrbitAngle + Mul(p.orbitSpeed, dt)
        rotationAngle == p.totalRotationAngle + Mul(p.rotationSpeed, dt)
        M0 == Identity
        M1 == rotateY(M0, orbitAngle)
        M2 == translate(M1, <<p.orbit, 0, 0>>)
        M3 == rotateY(M2, rotationAngle)
    IN [p EXCEPT !.totalOrbitAngle = orbitAngle,
                 !.totalRotationAngle = rotationAngle,
                 !.modelMatrix = M3]

\* the matrix not reset to identity before it is rebuilt
updatePlanet_noReset(p, dt) ==
    LET orbitAngle == p.totalOrbitAngle + Mul(Mul(p.orbitSpeed, dt), orbitTimeScale)
        rotationAngle == p.totalRotationAngle + Mul(p.rotationSpeed, dt)
        M0 == p.modelMatrix
        M1 == rotateY(M0, orbitAngle)
        M2 == translate(M1, <<p.orbit, 0, 0>>)
        M3 == rotateY(M2, rotationAngle)
    IN [p EXCEPT !.totalOrbitAngle = orbitAngle,
                 !.totalRotationAngle = rotationAngle,
                 !.modelMatrix = M3]

\* the translation taken from orbitSpeed instead of orbit
updatePlanet_wrongField(p, dt) ==
    LET orbitAngle == p.totalOrbitAngle + Mul(Mul(p.orbitSpeed, dt), orbitTimeScale)
        rotationAngle == p.totalRotationAngle + Mul(p.rotationSpeed, dt)
        M0 == Identity
        M1 == rotateY(M0, orbitAngle)
        M2 == translate(M1, <<p.orbitSpeed, 0, 0>>)
        M3 == rotateY(M2, rotationAngle)
    IN [p EXCEPT !.totalOrbitAngle = orbitAngle,
                 !.totalRotationAngle = rotationAngle,
                 !.modelMatrix = M3]

updatePlanet(p, dt) ==
    LET orbitAngle == p.totalOrbitAngle + Mul(Mul(p.orbitSpeed, dt), orbitTimeScale)
        rotationAngle == p.totalRotationAngle + Mul(p.rotationSpeed, dt)
        M0 == Identity
        M1 == rotateY(M0, orbitAngle)
        M2 == translate(M1, <<p.orbit, 0, 0>>)
        M3 == rotateY(M2, rotationAngle)
    IN [p EXCEPT !.totalOrbitAngle = orbitAngle,
                 !.totalRotationAngle = rotationAngle,
                 !.modelMatrix = M3]

_update(dt) ==
    /\ star' = updateStar(star, dt)
    /\ planets' = [i \in DOMAIN planets |-> updatePlanet(planets[i], dt)]

\* the view matrix _draw computes for the current camera
cameraView ==
    IF cameraMode = "3D"
       THEN lookAt([spherical |-> <<cameraRadius, cameraPitch, cameraYaw>>],
                   <<0, 0, 0>>, <<0, 1, 0>>)
       ELSE lookAt([cartesian |-> <<0, 25, 0>>], <<0, 0, 0>>, <<0, 0, -1>>)

\* the objects submitted with the matrices they had before _update ran
_draw_beforeUpdate ==
    /\ projectionMatrix' = perspective(45, 100, 1000000)
    /\ viewMatrix' = cameraView
    /\ drawn' = <<star.modelMatrix>>
                \o [i \in DOMAIN planets |-> planets[i].modelMatrix]

\* runs after _update: the star, then the planets in order, are submitted
\* with the matrices they have now
_draw ==
    /\ projectionMatrix' = perspective(45, 100, 1000000)
    /\ viewMatrix' = cameraView
    /\ drawn' = <<star'.modelMatrix>>
                \o [i \in DOMAIN planets' |-> planets'[i].modelMatrix]

render(time) ==
    LET seconds == time * msToSeconds
    IN /\ deltaTime' = seconds - lastTime
       /\ lastTime' = seconds
       /\ _update(seconds - lastTime)
       /\ _draw
       /\ UNCHANGED <<cameraMode, cameraYaw, cameraPitch, cameraRadius, console>>

\* the callback without its requestAnimationFrame(renderFrame)
renderFrame_noRearm(time) ==
    /\ render(time)
    /\ pendingFrames' = pendingFrames - 1

\* the callback start() registers: one call, run to completion as every
\* callback of the host's single thread is.  The host has taken it off the
\* queue; it renders and registers itself again.
renderFrame(time) ==
    /\ render(time)
    /\ pendingFrames' = (pendingFrames - 1) + 1

start ==
    /\ pendingFrames' = pendingFrames + 1
    /\ loopStarted' = TRUE
    /\ UNCHANGED sceneVars

\* timestamps the host hands to a frame callback: monotonic
Timestamps ==
    {t \in {lastTime \div msToSeconds + g : g \in FrameGaps} :
        t <= MaxHalfSeconds * 500}

----------------------------------------------------------------------------
(* The scene under host-dispatched events *)

SetCameraMode ==
    /\ \E mode \in ModeRequests : setCameraMode(mode)
    /\ UNCHANGED <<driverVars, auxVars>>

HandleMouseMovement ==
    \E d \in DragDeltas :
        /\ cameraMode = "3D" =>
              (cameraYaw - d[1] * sensitivity - initialYaw)
                  \in -(MaxYawTurn * Scale)..(MaxYawTurn * Scale)
        /\ handleMouseMovement(d[1], d[2])
        /\ UNCHANGED <<driverVars, auxVars>>

HandleMouseScroll ==
    /\ \E deltaY \in WheelDeltas : handleMouseScroll(deltaY)
    /\ UNCHANGED <<driverVars, auxVars>>

\* the one caller of start() is main(), once
Start ==
    /\ ~loopStarted
    /\ start
    /\ UNCHANGED auxVars

\* the host runs a waiting frame callback
Render ==
    /\ pendingFrames > 0
    /\ \E time \in Timestamps : renderFrame(time)
    /\ UNCHANGED <<loopStarted, auxVars>>

Next ==
    \/ Start
    \/ SetCameraMode
    \/ HandleMouseMovement
    \/ HandleMouseScroll
    \/ Render

Spec == Init /\ [][Next]_vars

----------------------------------------------------------------------------
(* Camera controller: properties *)

ValidModes == {"3D", "TOP"}

initialCamera == <<initialYaw, initialPitch, initialRadius>>

topView == lookAt([cartesian |-> <<0, 25, 0>>], <<0, 0, 0>>, <<0, 0, -1>>)

\* C1: in every reachable state cameraPitch lies in [minPitch, maxPitch]
\* = [0.1, PI/2 - 0.1], whatever drags, scrolls, mode switches and frames
\* led to it.
PitchInRange == cameraPitch >= 100 /\ cameraPitch <= (PI \div 2) - 100

\* a drag has pushed the pitch past the upper bound and it was clamped
PitchClampedAtMax ==
    /\ cameraPitch = (PI \div 2) - 100
    /\ cameraMode = "3D"
    /\ lastTime > 0

\* C2: in every reachable state cameraRadius lies in [5, 100], and a scroll
\* in Orbital mode whose sum radius + deltaY * zoomSensitivity leaves that
\* interval yields exactly the nearer bound.
RadiusInRange ==
    /\ [](cameraRadius >= 5000 /\ cameraRadius <= 100000)
    /\ [][\A deltaY \in WheelDeltas :
            (cameraMode = "3D" /\ handleMouseScroll(deltaY)) =>
                LET sum == cameraRadius + deltaY * 100
                IN /\ sum > 100000 => cameraRadius' = 100000
                   /\ sum < 5000 => cameraRadius' = 5000
                   /\ sum \in 5000..100000 => cameraRadius' = sum]_vars

\* a scroll has been clamped at the far bound, and frames have run
RadiusClampedAtMax ==
    /\ cameraRadius = 100000
    /\ cameraMode = "3D"
    /\ viewMatrix = lookAt([spherical |-> <<100000, cameraPitch, cameraYaw>>],
                           <<0, 0, 0>>, <<0, 1, 0>>)

\* C3: while cameraMode is TOP, every handleMouseMovement and every
\* handleMouseScroll step leaves cameraYaw, cameraPitch and cameraRadius
\* unchanged.
TopDownIgnoresInput ==
    [][(cameraMode = "TOP" /\
        ((\E d \in DragDeltas : handleMouseMovement(d[1], d[2]))
           \/ (\E deltaY \in WheelDeltas : handleMouseScroll(deltaY))))
       => UNCHANGED camera]_vars

\* TopDown mode, entered with a camera the user has moved, a TopDown frame drawn
TopDownWithMovedCamera ==
    /\ cameraMode = "TOP"
    /\ viewMatrix = topView
    /\ cameraYaw # initialYaw
    /\ cameraPitch # initialPitch
    /\ cameraRadius # initialRadius

\* C4: no step that starts or ends in TopDown mode changes cameraYaw,
\* cameraPitch or cameraRadius: not the switch into TopDown, not a drag, scroll
\* or frame while in it, not the switch back.  Orbital -> TopDown -> Orbital
\* therefore resumes with exactly the parameters it left.
ModeSwitchKeepsCamera ==
    [][(cameraMode = "TOP" \/ cameraMode' = "TOP" \/ cameraMode' # cameraMode)
       => UNCHANGED camera]_vars

\* back in Orbital mode after a frame drawn in TopDown mode, no frame since,
\* with a camera that is not the initial one
BackInOrbitalAfterTopDown ==
    /\ cameraMode = "3D"
    /\ viewMatrix = topView
    /\ camera # initialCamera

\* C5: cameraMode is always one of the two valid modes, and setCameraMode
\* with any other value changes nothing of the camera or the scene (it only
\* logs a diagnostic).
InvalidModeIgnored ==
    /\ [](cameraMode \in ValidModes)
    /\ [][\A mode \in ModeRequests \ ValidModes :
            setCameraMode(mode) =>
                UNCHANGED <<cameraMode, camera, scene, lastTime, deltaTime,
                            projectionMatrix, viewMatrix, drawn>>]_vars

\* an invalid request has been made and logged while in TopDown mode
InvalidModeLogged ==
    /\ console = <<"Invalid camera mode:", "SIDE">>
    /\ cameraMode = "TOP"

----------------------------------------------------------------------------
(* Orbit system and frame driver: properties *)

\* C6: each body's totalOrbitAngle and totalRotationAngle start at 0 and,
\* over every step, grow by orbitSpeed * dt * 0.5 and rotationSpeed * dt,
\* where dt is the time that step adds to lastTime (0 for a step that is not
\* a frame); they are never reset.  One update with dt = 1.0 from creation
\* gives orbit angles {0.5, 0.75, 1.0} and spin angles {3, 4, 5}.
AnglesAccumulate ==
    /\ \A i \in DOMAIN planets :
          planets[i].totalOrbitAngle = 0 /\ planets[i].totalRotationAngle = 0
    /\ [][LET dt == lastTime' - lastTime
          IN /\ DOMAIN planets' = 1..3
             /\ \A i \in 1..3 :
                  /\ planets'[i].totalOrbitAngle =
                        planets[i].totalOrbitAngle
                          + (planets[i].orbitSpeed * dt) \div 2000
                  /\ planets'[i].totalRotationAngle =
                        planets[i].totalRotationAngle
                          + (planets[i].rotationSpeed * dt) \div 1000
             /\ (lastTime = 0 /\ dt = 1000) =>
                  /\ [i \in 1..3 |-> planets'[i].totalOrbitAngle]
                        = <<500, 750, 1000>>
                  /\ [i \in 1..3 |-> planets'[i].totalRotationAngle]
                        = <<3000, 4000, 5000>>]_vars

\* two updates with dt = 1.0 have run
TwoSecondsOfOrbit ==
    /\ lastTime = 2000
    /\ deltaTime = 1000
    /\ [i \in 1..3 |-> planets[i].totalOrbitAngle] = <<1000, 1500, 2000>>
    /\ [i \in 1..3 |-> planets[i].totalRotationAngle] = <<6000, 8000, 10000>>

\* C7: in every reachable state each body's model matrix is
\* identity * Rotate_Y(totalOrbitAngle) * Translate(orbit, 0, 0)
\* * Rotate_Y(totalRotationAngle) for that body's current angles and radius,
\* with nothing of an earlier frame's matrix left in it.
PlanetTransformFromAngles ==
    \A i \in DOMAIN planets :
        LET p == planets[i]
        IN p.modelMatrix =
             rotateY(translate(rotateY(Identity, p.totalOrbitAngle),
                               <<p.orbit, 0, 0>>),
                     p.totalRotationAngle)

\* after a second update every body's matrix has the three factors
PlanetsRebuiltTwice ==
    /\ lastTime = 2000
    /\ deltaTime = 500 + 500
    /\ \A i \in DOMAIN planets : Len(planets[i].modelMatrix) = 3
    /\ drawn = <<star.modelMatrix>>
                \o [i \in DOMAIN planets |-> planets[i].modelMatrix]

\* C8: the star's matrix is Rotate_Y of one accumulated spin angle (the sum
\* of dt * 0.2, which is lastTime * 0.2) applied to the size factor, rebuilt
\* each frame rather than composed onto the previous frame's matrix.
StarRebuiltFromSpinAngle ==
    star.modelMatrix =
        rotateY(scale(Identity, <<2000, 2000, 2000>>), (lastTime * 200) \div 1000)

\* C9: a frame whose elapsed time is 0 leaves the star's matrix and every
\* body's angles and matrix as they were.
ZeroTimeKeepsScene ==
    [][((\E time \in Timestamps : render(time)) /\ deltaTime' = 0)
       => UNCHANGED <<star, planets>>]_vars

\* a frame with elapsed time 0 has run on a scene that has already moved
ZeroTimeFrameRan ==
    /\ deltaTime = 0
    /\ lastTime > 0
    /\ Len(star.modelMatrix) > 1
    /\ planets[1].totalOrbitAngle > 0

\* C10: the elapsed time handed to the update is never negative and never
\* above the cap of one second.
DeltaTimeClamped == deltaTime >= 0 /\ deltaTime <= 1000

----------------------------------------------------------------------------
(* Frame driver and input handlers: properties *)

\* C11: a frame callback with timestamp t hands dt = t(seconds) - lastTime
\* to the update, leaves lastTime at t(seconds), runs the update once on the
\* scene as it was and then the draw once on the scene as updated: what is
\* submitted are the matrices after the update, never those before it.
FrameUpdatesThenDraws ==
    [][\A time \in Timestamps :
          renderFrame(time) =>
            /\ deltaTime' = time - lastTime
            /\ lastTime' = time
            /\ star' = updateStar(star, time - lastTime)
            /\ planets' = [i \in 1..3 |-> updatePlanet(planets[i], time - lastTime)]
            /\ viewMatrix' = cameraView
            /\ drawn' = <<star'.modelMatrix, planets'[1].modelMatrix,
                          planets'[2].modelMatrix, planets'[3].modelMatrix>>]_vars

\* the first frame came at 1.5 s and has been updated and drawn
FirstFrameDrawn ==
    /\ lastTime = 1500
    /\ deltaTime = 1500
    /\ planets[1].totalOrbitAngle = 750
    /\ drawn = <<star.modelMatrix, planets[1].modelMatrix,
                 planets[2].modelMatrix, planets[3].modelMatrix>>

\* C12: once start() has been called exactly one frame callback is waiting
\* in every state, and no step ends the loop: each frame leaves exactly one
\* callback registered.  (A callback runs to completion, so the update and
\* draw of two frames cannot interleave.)
OneFramePending ==
    /\ [](loopStarted => pendingFrames = 1)
    /\ [](~loopStarted => pendingFrames = 0)
    /\ [][loopStarted => (loopStarted' /\ pendingFrames' = pendingFrames)]_vars

\* the loop is running and has completed more than one frame
LoopRunning ==
    /\ loopStarted
    /\ pendingFrames = 1
    /\ lastTime = 2000
    /\ deltaTime = 0

\* C14: a handleMouseMovement or handleMouseScroll step, in whatever state
\* of the frame loop it comes, changes none of cameraMode, lastTime, the
\* star's matrix, the bodies' accumulated angles and matrices.
InputTouchesCameraOnly ==
    [][((\E d \in DragDeltas : handleMouseMovement(d[1], d[2]))
          \/ (\E deltaY \in WheelDeltas : handleMouseScroll(deltaY)))
       => UNCHANGED <<cameraMode, lastTime, star, planets>>]_vars

\* drags and scrolls have moved the camera between frames
CameraMovedBetweenFrames ==
    /\ loopStarted
    /\ lastTime > 0
    /\ cameraYaw # initialYaw
    /\ cameraRadius # initialRadius
    /\ cameraPitch # initialPitch
    /\ viewMatrix # cameraView

\* C17: in Orbital mode a drag (dx, dy) sets the yaw to yaw - dx * 0.01,
\* neither clamped nor wrapped, and with dy = 0 leaves the pitch as it is;
\* (100, 0) lowers the yaw by exactly 1.0.
DragTurnsYaw ==
    [][\A d \in DragDeltas :
          (cameraMode = "3D" /\ handleMouseMovement(d[1], d[2])) =>
             /\ cameraYaw' = cameraYaw - 10 * d[1]
             /\ d[2] = 0 => cameraPitch' = cameraPitch
             /\ d = <<100, 0>> => cameraYaw' = cameraYaw - 1000]_vars

\* drags have taken the yaw below -PI
YawBeyondHalfTurn ==
    /\ cameraYaw = initialYaw - 3000
    /\ cameraYaw < -PI
    /\ cameraMode = "3D"

\* where a matrix takes the origin, as far as it can be told without the
\* values of sine and cosine: an exact point, or a point of the circle about
\* the Y axis with squared radius r2 at height y
originPoint == [kind |-> "exact", x |-> 0, y |-> 0, z |-> 0, r2 |-> 0]

unknownPoint == [kind |-> "unknown", x |-> 0, y |-> 0, z |-> 0, r2 |-> 0]

applyFactor(f, p) ==
    CASE f.op = "rotateY" ->
           IF p.kind = "exact" /\ (p.x # 0 \/ p.z # 0)
              THEN [kind |-> "circle", x |-> 0, y |-> p.y, z |-> 0,
                    r2 |-> p.x * p.x + p.z * p.z]
              ELSE p
      [] f.op = "translate" ->
           IF p.kind = "exact"
              THEN [p EXCEPT !.x = p.x + f.arg[1], !.y = p.y + f.arg[2],
                             !.z = p.z + f.arg[3]]
              ELSE IF p.kind = "circle" /\ f.arg[1] = 0 /\ f.arg[3] = 0
                      THEN [p EXCEPT !.y = p.y + f.arg[2]]
                      ELSE unknownPoint
      [] f.op = "scale" ->
           IF p.kind = "exact"
              THEN [p EXCEPT !.x = Mul(p.x, f.arg[1]), !.y = Mul(p.y, f.arg[2]),
                             !.z = Mul(p.z, f.arg[3])]
              ELSE unknownPoint
      [] OTHER -> unknownPoint

RECURSIVE translationPart(_)
translationPart(M) ==
    IF M = << >> THEN originPoint
    ELSE applyFactor(Head(M), translationPart(Tail(M)))

\* squared distance of the translation part from the origin, -1 if unknown
distanceSquared(M) ==
    LET p == translationPart(M)
    IN IF p.kind = "exact" THEN p.x * p.x + p.y * p.y + p.z * p.z
       ELSE IF p.kind = "circle" THEN p.r2 + p.y * p.y
       ELSE -1

\* C18: in every reachable state the translation part of each body's
\* matrix is at distance orbit from the origin: 5, 8 and 11.
OrbitDistanceConstant ==
    /\ \A i \in DOMAIN planets :
          distanceSquared(planets[i].modelMatrix) = planets[i].orbit * planets[i].orbit
    /\ [i \in 1..3 |-> distanceSquared(planets[i].modelMatrix)]
          = <<5000 * 5000, 8000 * 8000, 11000 * 11000>>

\* the bodies have been carried round their orbits by two updates
BodiesCarriedRound ==
    /\ lastTime = 2000
    /\ planets[3].totalOrbitAngle = 2000
    /\ translationPart(planets[3].modelMatrix).kind = "circle"
    /\ distanceSquared(planets[3].modelMatrix) = 121000000

----------------------------------------------------------------------------
(* index.js: startup *)

\* the struct initGL builds from the linked program
initGLProgramInfo ==
    [program |-> "program",
     attribLocations |-> [position |-> "a_Position"],
     uniformLocations |-> [projectionMatrix |-> "u_ProjectionMatrix",
                           viewMatrix |-> "u_ViewMatrix",
                           modelMatrix |-> "u_ModelMatrix",
                           color |-> "u_Color"]]

\* the models main loads and passes to the scene
mainModels == {"cone", "icosphere", "monkey", "sphere", "torus"}

\* the models _setupScene hands to a GameObject, in order: the star, the
\* planets, then the axes
sceneModels ==
    <<setupStar.model>> \o [i \in DOMAIN setupPlanets |-> setupPlanets[i].model]
        \o <<"cylinder", "cone">>

\* new GameObject reads model.indices.length: a TypeError when the model is
\* not among those passed in
constructorThrows(models) ==
    \E i \in DOMAIN sceneModels : sceneModels[i] \notin models

\* what initGL returns, "null" on any failure; both shaders are compiled
\* before either is looked at
initGL(context, vertexShader, fragmentShader, program) ==
    IF ~context THEN "null"
    ELSE IF ~vertexShader \/ ~fragmentShader THEN "null"
    ELSE IF ~program THEN "null"
    ELSE "ok"

\* what initGL and the shader helpers log with console.error
initGLErrors(context, vertexShader, fragmentShader, program) ==
    IF ~context THEN {"WebGL not supported!"}
    ELSE IF ~vertexShader \/ ~fragmentShader THEN {"Error compiling shader:"}
    ELSE IF ~program THEN {"Error linking program:"}
    ELSE {}

\* the stage of initGL that failed
initGLStage(context, vertexShader, fragmentShader, program) ==
    IF ~context THEN "context"
    ELSE IF ~vertexShader \/ ~fragmentShader THEN "compile"
    ELSE IF ~program THEN "link"
    ELSE "ok"

\* main up to its first await.  initGL returning null makes the
\* destructuring const { gl, programInfo } = initGL() throw a TypeError: the
\* async function ends rejected and its if (!gl) return is not reached.
\* Otherwise the five fetches are started and main waits for Promise.all.
mainInit(context, vertexShader, fragmentShader, program) ==
    /\ main.pc = "start"
    /\ IF initGL(context, vertexShader, fragmentShader, program) = "null"
          THEN main' = [main EXCEPT
                  !.pc = "done",
                  !.outcome = "rejected",
                  !.initGL = initGLStage(context, vertexShader, fragmentShader, program),
                  !.errors = @ \cup initGLErrors(context, vertexShader,
                                                 fragmentShader, program)]
          ELSE main' = [main EXCEPT
                  !.pc = "loading",
                  !.initGL = "ok",
                  !.programInfo = initGLProgramInfo,
                  !.loads = [m \in mainModels |-> "pending"]]
    /\ UNCHANGED <<sceneVars, driverVars, gl, ply>>

\* loadPLY settles: it resolves with the parsed model, or logs and rethrows
loadPLY(m, ok) ==
    /\ main.loads # << >>
    /\ main.loads[m] = "pending"
    /\ IF ok
          THEN main' = [main EXCEPT !.loads[m] = "loaded"]
          ELSE main' = [main EXCEPT !.loads[m] = "failed",
                                    !.errors = @ \cup {"Error loading PLY file"}]
    /\ UNCHANGED <<sceneVars, driverVars, gl, ply>>

\* the catch block with nothing in it
mainCatch_silent ==
    /\ main.pc = "loading"
    /\ \E m \in mainModels : main.loads[m] = "failed"
    /\ main' = [main EXCEPT !.pc = "done", !.outcome = "caught"]
    /\ UNCHANGED <<sceneVars, driverVars, gl, ply>>

\* Promise.all rejects with the first load that fails: main's catch block
mainCatch ==
    /\ main.pc = "loading"
    /\ \E m \in mainModels : main.loads[m] = "failed"
    /\ main' = [main EXCEPT
            !.pc = "done", !.outcome = "caught",
            !.errors = @ \cup {"Failed to initialize application:"}]
    /\ UNCHANGED <<sceneVars, driverVars, gl, ply>>

\* Promise.all resolves: the rest of the try block, new StarSystem and
\* start(); an exception of the constructor lands in the catch block
mainBuild ==
    /\ main.pc = "loading"
    /\ \A m \in mainModels : main.loads[m] = "loaded"
    /\ IF constructorThrows(mainModels)
          THEN /\ main' = [main EXCEPT
                      !.pc = "done", !.outcome = "caught",
                      !.errors = @ \cup {"Failed to initialize application:"}]
               /\ UNCHANGED <<sceneVars, driverVars>>
          ELSE /\ main' = [main EXCEPT
                      !.pc = "done", !.outcome = "running",
                      !.starSystem = "constructed"]
               /\ cameraMode' = "3D"
               /\ cameraYaw' = initialYaw
               /\ cameraPitch' = initialPitch
               /\ cameraRadius' = initialRadius
               /\ lastTime' = 0
               /\ deltaTime' = 0
               /\ star' = setupStar
               /\ planets' = setupPlanets
               /\ projectionMatrix' = Identity
               /\ viewMatrix' = Identity
               /\ drawn' = << >>
               /\ console' = << >>
               /\ pendingFrames' = pendingFrames + 1
               /\ loopStarted' = TRUE
    /\ UNCHANGED <<gl, ply>>

\* before DOMContentLoaded: nothing constructed
StartupInit ==
    /\ main = [pc |-> "start", outcome |-> "none", initGL |-> "pending",
               programInfo |-> "none", loads |-> << >>, errors |-> {},
               starSystem |-> "none"]
    /\ cameraMode = "none"
    /\ cameraYaw = 0
    /\ cameraPitch = 0
    /\ cameraRadius = 0
    /\ lastTime = 0
    /\ deltaTime = 0
    /\ star = << >>
    /\ planets = << >>
    /\ projectionMatrix = << >>
    /\ viewMatrix = << >>
    /\ drawn = << >>
    /\ console = << >>
    /\ pendingFrames = 0
    /\ loopStarted = FALSE
    /\ gl = << >>
    /\ ply = << >>

MainInit ==
    \E context, vertexShader, fragmentShader, program \in BOOLEAN :
        mainInit(context, vertexShader, fragmentShader, program)

LoadPLY == \E m \in mainModels, ok \in BOOLEAN : loadPLY(m, ok)

MainCatch == mainCatch

MainBuild == mainBuild

StartupNext ==
    \/ MainInit
    \/ LoadPLY
    \/ MainCatch
    \/ MainBuild

StartupSpec == StartupInit /\ [][StartupNext]_vars

----------------------------------------------------------------------------
(* Startup: properties *)

startupFailed ==
    \/ main.initGL \in {"context", "compile", "link"}
    \/ \E m \in DOMAIN main.loads : main.loads[m] = "failed"

\* C15: once context creation, shader compilation, program linking or a
\* geometry load has failed, the scene is never constructed and the loop
\* never started, and when main has ended the failure has been reported:
\* the failed stage's console.error is there, main has ended in its catch
\* block or with an exception, and a failed load has gone through main's
\* catch block.
FailureStopsStartup ==
    startupFailed =>
        /\ main.starSystem = "none"
        /\ ~loopStarted
        /\ pendingFrames = 0
        /\ main.pc = "done" =>
              /\ main.outcome \in {"rejected", "caught"}
              /\ main.initGL = "context" => "WebGL not supported!" \in main.errors
              /\ main.initGL = "compile" => "Error compiling shader:" \in main.errors
              /\ main.initGL = "link" => "Error linking program:" \in main.errors
              /\ main.initGL = "ok" =>
                    {"Error loading PLY file", "Failed to initialize application:"}
                        \subseteq main.errors

\* a geometry load has failed, the others have loaded, and main has ended
OneLoadFailed ==
    /\ main.pc = "done"
    /\ main.loads # << >>
    /\ main.loads["torus"] = "failed"
    /\ \A m \in mainModels \ {"torus"} : main.loads[m] = "loaded"

\* C19: when the context, the shaders, the program and every load have
\* succeeded and main has ended, the scene has been constructed and the
\* frame loop started.
SuccessfulStartupRuns ==
    (/\ main.pc = "done"
     /\ main.initGL = "ok"
     /\ \A m \in DOMAIN main.loads : main.loads[m] = "loaded")
    => (main.starSystem = "constructed" /\ loopStarted /\ pendingFrames = 1)

----------------------------------------------------------------------------
(* GameObject.draw and the WebGL context *)

\* draw calls of one run stop at this number per frame
MaxDraws == 4

\* the linked program's attributes and uniforms
programAttributes == {"a_Position", "a_Normal"}

programUniforms ==
    {"u_ModelMatrix", "u_ViewMatrix", "u_ProjectionMatrix", "u_Color",
     "u_LightPosition", "u_isEmissive"}

\* the objects _draw submits, with the colours _setupScene gave them
drawables ==
    <<[name |-> "star", color |-> <<1000, 1000, 0, 1000>>, object |-> star],
      [name |-> "planet1", color |-> <<200, 800, 200, 1000>>, object |-> planets[1]],
      [name |-> "planet2", color |-> <<400, 400, 1000, 1000>>, object |-> planets[2]],
      [name |-> "planet3", color |-> <<700, 300, 700, 1000>>, object |-> planets[3]]>>

\* the buffers _createBuffers made for an object
buffers(name) ==
    [position |-> <<name, "position">>, normal |-> <<name, "normal">>,
     indices |-> <<name, "indices">>]

\* info.attribLocations[field] as vertexAttribPointer takes it: a field the
\* struct does not have is undefined, which converts to index 0, the
\* attribute the linker happened to put there
attribLocation(info, field) ==
    IF field \in DOMAIN info.attribLocations
       THEN info.attribLocations[field]
       ELSE gl.attributeAtIndex0

\* gl.uniform*(info.uniformLocations[field], value): a missing field is
\* undefined, taken as the null location, for which the call does nothing
setUniform(uniforms, info, field, value) ==
    IF field \in DOMAIN info.uniformLocations
       THEN [uniforms EXCEPT ![info.uniformLocations[field]] = value]
       ELSE uniforms

\* what gl.drawElements reads: the arrays of the two attributes, the index
\* buffer and the uniforms
drawElements(name, attribs, elementArrayBuffer, uniforms) ==
    [object |-> name,
     a_Position |-> attribs["a_Position"],
     a_Normal |-> attribs["a_Normal"],
     indices |-> elementArrayBuffer,
     u_ModelMatrix |-> uniforms["u_ModelMatrix"],
     u_Color |-> uniforms["u_Color"],
     u_isEmissive |-> uniforms["u_isEmissive"]]

\* GameObject.draw of the object drawables[i], with the struct info
draw(i, info) ==
    LET o == drawables[i]
        b == buffers(o.name)
        attribs1 == [gl.attribs EXCEPT ![attribLocation(info, "position")] = b.position]
        attribs2 == [attribs1 EXCEPT ![attribLocation(info, "normal")] = b.normal]
        uniforms1 == setUniform(gl.uniforms, info, "modelMatrix", o.object.modelMatrix)
        uniforms2 == setUniform(uniforms1, info, "color", o.color)
        uniforms3 == setUniform(uniforms2, info, "isEmissive",
                                IF o.object.isEmissive THEN 1 ELSE 0)
    IN /\ gl' = [gl EXCEPT
                !.arrayBuffer = b.normal,
                !.elementArrayBuffer = b.indices,
                !.attribs = attribs2,
                !.uniforms = uniforms3,
                !.locationsRead = @ \cup
                    {<<"attribLocations", "position">>, <<"attribLocations", "normal">>,
                     <<"uniformLocations", "modelMatrix">>,
                     <<"uniformLocations", "color">>,
                     <<"uniformLocations", "isEmissive">>},
                !.drawCalls = Append(@, drawElements(o.name, attribs2, b.indices,
                                                     uniforms3))]
       /\ UNCHANGED <<sceneVars, driverVars, main, ply>>

\* _draw up to its first draw call: clear, the two camera matrices,
\* useProgram and the two uniforms shared by all objects
beginDraw(info) ==
    /\ projectionMatrix' = perspective(45, 100, 1000000)
    /\ viewMatrix' = cameraView
    /\ gl' = [gl EXCEPT
             !.uniforms = setUniform(
                             setUniform(@, info, "projectionMatrix",
                                        perspective(45, 100, 1000000)),
                             info, "viewMatrix", cameraView),
             !.locationsRead = @ \cup {<<"uniformLocations", "projectionMatrix">>,
                                       <<"uniformLocations", "viewMatrix">>},
             !.drawCalls = << >>]
    /\ UNCHANGED <<cameraMode, cameraYaw, cameraPitch, cameraRadius, lastTime,
                   deltaTime, star, planets, drawn, console, driverVars, main, ply>>

\* the context after initGL and the scene's construction: the buffers
\* bound last are those of the last object constructed; nothing points at
\* an attribute yet and the uniforms have GLSL's defaults.  Which of the two
\* attributes the linker puts at index 0 is the implementation's choice.
DrawInit ==
    /\ cameraMode = "3D"
    /\ cameraYaw = initialYaw
    /\ cameraPitch = initialPitch
    /\ cameraRadius = initialRadius
    /\ lastTime = 0
    /\ deltaTime = 0
    /\ star = setupStar
    /\ planets = setupPlanets
    /\ projectionMatrix = Identity
    /\ viewMatrix = Identity
    /\ drawn = << >>
    /\ console = << >>
    /\ pendingFrames = 0
    /\ loopStarted = FALSE
    /\ main = << >>
    /\ ply = << >>
    /\ \E a \in programAttributes :
          gl = [attributeAtIndex0 |-> a,
                arrayBuffer |-> <<"zAxisCone", "normal">>,
                elementArrayBuffer |-> <<"zAxisCone", "indices">>,
                attribs |-> [x \in programAttributes |-> <<"none", "none">>],
                uniforms |-> [u \in programUniforms |->
                                IF u = "u_isEmissive" THEN 0 ELSE << >>],
                locationsRead |-> {},
                drawCalls |-> << >>]

BeginDraw == beginDraw(initGLProgramInfo)

\* any object next, whatever was drawn before it
DrawObject ==
    \E i \in DOMAIN drawables :
        /\ Len(gl.drawCalls) < MaxDraws
        /\ draw(i, initGLProgramInfo)

DrawNext ==
    \/ BeginDraw
    \/ DrawObject

DrawSpec == DrawInit /\ [][DrawNext]_vars

----------------------------------------------------------------------------
(* Draw calls: properties *)

\* C13: every draw call reads the object's own position buffer through
\* a_Position, its own normal buffer through a_Normal, its own index buffer,
\* and its own matrix, colour and emissive flag in the uniforms, whatever
\* was drawn before it.
DrawSelfContained ==
    \A k \in DOMAIN gl.drawCalls :
        LET call == gl.drawCalls[k]
        IN \A i \in DOMAIN drawables :
             drawables[i].name = call.object =>
               /\ call.a_Position = <<call.object, "position">>
               /\ call.a_Normal = <<call.object, "normal">>
               /\ call.indices = <<call.object, "indices">>
               /\ call.u_ModelMatrix = drawables[i].object.modelMatrix
               /\ call.u_Color = drawables[i].color
               /\ call.u_isEmissive = (IF drawables[i].object.isEmissive THEN 1 ELSE 0)

\* C16: every location the draw path has read from the struct is one that
\* initGL resolved into it.
LocationsResolved ==
    \A r \in gl.locationsRead : r[2] \in DOMAIN initGLProgramInfo[r[1]]

----------------------------------------------------------------------------
(* parsePLY *)

\* declared vertex and face counts of the files parsed go up to these
MaxVertices == 2
MaxFaces == 2

\* one line of a file, by what the parser looks at
line(kind, count) == [kind |-> kind, count |-> count]

\* count copies of a body line
repeat(kind, count) == [i \in 1..count |-> line(kind, 0)]

\* an ASCII file declaring v vertices and f triangles and holding as many
\* lines of each; a text that ends in a newline splits into a last empty line
plyText(v, f, endsInNewline) ==
    <<line("ply", 0), line("element vertex", v), line("property", 0),
      line("element face", f), line("property", 0), line("end_header", 0)>>
    \o repeat("vertex", v) \o repeat("face", f)
    \o (IF endsInNewline THEN <<line("", 0)>> ELSE << >>)

\* parts[from..from+2] of a line, as parseFloat or parseInt takes them
parts(l, from) == [i \in 1..3 |-> [line |-> l.kind, part |-> from + i - 1]]

\* the three parser states of the state machine (STATE in the source), in order
State == [HEADER |-> 0, READING_VERTICES |-> 1, READING_FACES |-> 2]

\* the state machine's variables before its loop
parsePLYInit(text) ==
    [file |-> "part_000", lines |-> text, positions |-> << >>, indices |-> << >>,
     vertexCount |-> 0, faceCount |-> 0, verticesRead |-> 0, facesRead |-> 0,
     currentState |-> State.HEADER]

\* one turn of the state machine's loop, on ply's first remaining line
parsePLY ==
    LET l == Head(ply.lines)
        rest == [ply EXCEPT !.lines = Tail(@)]
    IN  ply' =
          IF l.kind = "" THEN rest
          ELSE IF ply.currentState = State.HEADER THEN
                 IF l.kind = "element vertex" THEN [rest EXCEPT !.vertexCount = l.count]
                 ELSE IF l.kind = "element face" THEN [rest EXCEPT !.faceCount = l.count]
                 ELSE IF l.kind = "end_header"
                         THEN [rest EXCEPT !.currentState = State.READING_VERTICES]
                 ELSE rest
          ELSE IF ply.currentState = State.READING_VERTICES THEN
                 [rest EXCEPT
                    !.positions = @ \o parts(l, 0),
                    !.verticesRead = @ + 1,
                    !.currentState = IF ply.verticesRead + 1 = ply.vertexCount
                                        THEN State.READING_FACES ELSE @]
          ELSE [rest EXCEPT !.indices = @ \o parts(l, 1), !.facesRead = @ + 1]

\* the flag-based loop's variables before the loop
parsePLYLoaderInit(text) ==
    [file |-> "PLYLoader.js", lines |-> text, positions |-> << >>, indices |-> << >>,
     vertexCount |-> 0, faceCount |-> 0, inHeader |-> TRUE,
     vertexDataStarted |-> FALSE, headerVertexLines |-> 0, headerFaceLines |-> 0]

\* one turn of the flag-based loop
parsePLYLoader ==
    LET l == Head(ply.lines)
        rest == [ply EXCEPT !.lines = Tail(@)]
    IN  ply' =
          IF ply.inHeader THEN
                 IF l.kind = "element vertex" THEN [rest EXCEPT !.vertexCount = l.count]
                 ELSE IF l.kind = "element face" THEN [rest EXCEPT !.faceCount = l.count]
                 ELSE IF l.kind = "end_header"
                         THEN [rest EXCEPT !.inHeader = FALSE, !.vertexDataStarted = TRUE]
                 ELSE rest
          ELSE IF ply.vertexDataStarted /\ ply.headerVertexLines < ply.vertexCount THEN
                 [rest EXCEPT !.positions = @ \o parts(l, 0),
                              !.headerVertexLines = @ + 1]
          ELSE IF /\ ply.headerVertexLines >= ply.vertexCount
                  /\ ply.headerFaceLines < ply.faceCount THEN
                 [rest EXCEPT !.indices = @ \o parts(l, 1), !.headerFaceLines = @ + 1]
          ELSE rest

\* where a parser is: the state machine's variable, or what the flags and
\* counters of the flag-based loop select
currentState(p) ==
    IF p.file = "part_000" THEN p.currentState
    ELSE IF p.inHeader THEN State.HEADER
    ELSE IF p.headerVertexLines < p.vertexCount THEN State.READING_VERTICES
    ELSE State.READING_FACES

\* the vertex lines a parser has taken
verticesRead(p) ==
    IF p.file = "part_000" THEN p.verticesRead ELSE p.headerVertexLines

PlyInit ==
    /\ \E v \in 0..MaxVertices, f \in 0..MaxFaces, endsInNewline \in BOOLEAN :
          \/ ply = parsePLYInit(plyText(v, f, endsInNewline))
          \/ ply = parsePLYLoaderInit(plyText(v, f, endsInNewline))
    /\ cameraMode = "none"
    /\ cameraYaw = 0
    /\ cameraPitch = 0
    /\ cameraRadius = 0
    /\ lastTime = 0
    /\ deltaTime = 0
    /\ star = << >>
    /\ planets = << >>
    /\ projectionMatrix = << >>
    /\ viewMatrix = << >>
    /\ drawn = << >>
    /\ console = << >>
    /\ pendingFrames = 0
    /\ loopStarted = FALSE
    /\ main = << >>
    /\ gl = << >>

ParsePLY ==
    /\ ply.file = "part_000"
    /\ ply.lines # << >>
    /\ parsePLY
    /\ UNCHANGED <<sceneVars, driverVars, main, gl>>

ParsePLYLoader ==
    /\ ply.file = "PLYLoader.js"
    /\ ply.lines # << >>
    /\ parsePLYLoader
    /\ UNCHANGED <<sceneVars, driverVars, main, gl>>

PlyNext ==
    \/ ParsePLY
    \/ ParsePLYLoader

PlySpec == PlyInit /\ [][PlyNext]_vars

----------------------------------------------------------------------------
(* parsePLY: properties *)

\* C20: the parser's state never moves back; it is READING_VERTICES only
\* while fewer than the declared vertexCount vertex lines are read, for
\* every count including 0; every position comes from a vertex line; and
\* at the end of the text there are 3 * vertexCount positions and at most
\* 3 * faceCount indices.
ParserStateForward ==
    /\ [](/\ currentState(ply) = State.READING_VERTICES
                => verticesRead(ply) < ply.vertexCount
           /\ \A i \in DOMAIN ply.positions : ply.positions[i].line = "vertex"
           /\ ply.lines = << >> =>
                 /\ Len(ply.positions) = 3 * ply.vertexCount
                 /\ Len(ply.indices) <= 3 * ply.faceCount)
    /\ [][currentState(ply') >= currentState(ply)]_vars

\* the same, of the flag-based loop alone
FlagParserStateForward ==
    /\ [](ply.file = "PLYLoader.js" =>
           /\ \A i \in DOMAIN ply.positions : ply.positions[i].line = "vertex"
           /\ \A i \in DOMAIN ply.indices : ply.indices[i].line = "face"
           /\ ply.lines = << >> =>
                 /\ Len(ply.positions) = 3 * ply.vertexCount
                 /\ Len(ply.indices) = 3 * ply.faceCount)
    /\ [][currentState(ply') >= currentState(ply)]_vars

====
